---------------------------- MODULE Spec2Model ----------------------------
(***************************************************************************)
(* Solid, UDisks2 backend: the setup / teardown life cycle of              *)
(* StorageAccess (udisksstorageaccess.cpp).                                *)
(*                                                                         *)
(* The model is one StorageAccess object and what surrounds it: the        *)
(* UDisks2 daemon, which serves the object's asynchronous method calls     *)
(* (callWithCallback) and the calls of every other client of the device,   *)
(* the passphrase dialog, and the StorageAccess of the same device in      *)
(* another process, which is seen through the action broadcasts of         *)
(* Ifaces::Device (registerAction / broadcastActionRequested /             *)
(* broadcastActionDone).                                                   *)
(*                                                                         *)
(* A handler of the source is a function on a handler record s:            *)
(*   su, td, pr, acc  the members m_setupInProgress, m_teardownInProgress, *)
(*                    m_passphraseRequested, m_isAccessible                *)
(*   newcalls         daemon calls dispatched with a completion callback   *)
(*   bcast            action broadcasts sent                               *)
(*   out              everything the handler did that is visible outside,  *)
(*                    in program order                                     *)
(*   ret              the return value ("void" when there is none)         *)
(* and an action applies one handler to the object.                        *)
(***************************************************************************)
EXTENDS Integers, Sequences, FiniteSets, Bags, TLC

MaxAttempts == 2       \* accepted setup() / teardown() calls of the object
MaxPeerActions == 1    \* actions the other process starts on the device
MaxPaths == 3          \* return object paths generated in the process
MaxEvents == 2         \* device events waiting in the udev monitor

\* plain: a filesystem;  luks: an encrypted container;  cleartext: the decrypted
\* view of an unlocked container (its CryptoBackingDevice is the container)
Kinds == {"plain", "luks", "cleartext"}
Actions == {"setup", "teardown"}
ErrorNames == {"Error.Failed", "Error.DeviceBusy"}
PeerErrors == {"NoError", "OperationFailed"}
Passphrases == {"", "secret"}
DriveProps == [MediaRemovable : BOOLEAN, MediaAvailable : BOOLEAN,
               CanPowerOff : BOOLEAN, isOpticalDisc : BOOLEAN]

VARIABLES
    kind,                   \* the device: plain filesystem, container or cleartext device
    unlocked,               \* the container (of a cleartext device: its parent) is unlocked
    mounted,                \* the filesystem (of the device or its cleartext) is mounted
    m_setupInProgress,
    m_teardownInProgress,
    m_passphraseRequested,
    m_isAccessible,         \* the cached accessibility
    calls,                  \* bag of the daemon calls of the object awaiting their callback
    peerAction,             \* the action the other process has announced and not ended
    peerActions,            \* actions the other process has announced so far
    attempts,               \* accepted setup() / teardown() calls so far
    owed,                   \* accepted attempts minus done broadcasts sent
    flow,                   \* how far the setup of a locked container has come
    last                    \* the step taken last: handler, inputs, members before, outputs

vars == <<kind, unlocked, mounted, m_setupInProgress, m_teardownInProgress,
          m_passphraseRequested, m_isAccessible, calls, peerAction, peerActions,
          attempts, owed, flow, last>>

\* FstabHandling, the mount-table caches (udisksstoragedrive.cpp)
VARIABLES
    fstabFile,              \* the static mount configuration (FSTAB)
    mtabFile,               \* the live mount table (MNTTAB)
    localData,              \* per thread: the FstabHandling of globalFstabCache
    watch                   \* a query made earlier and its result, not flushed since

fvars == <<fstabFile, mtabFile, localData, watch>>

Threads == {"main", "worker"}

\* the empty QHash of m_fstabFstypeCache: one type per device
NoTypes == [k \in {} |-> <<>>]

\* the FstabHandling a thread finds in its thread storage: FstabHandling()
FstabHandling ==
    [m_fstabCacheValid |-> FALSE, m_mtabCacheValid |-> FALSE,
     m_fstabCache |-> <<>>, m_mtabCache |-> <<>>,
     m_fstabOptionsCache |-> <<>>, m_fstabFstypeCache |-> NoTypes]

NoFile == [readable |-> FALSE, entries |-> <<>>]

NoWatch == [on |-> FALSE]

\* the mount tables are not looked at
FstabUnused ==
    /\ fstabFile = NoFile
    /\ mtabFile = NoFile
    /\ localData = [t \in Threads |-> FstabHandling]
    /\ watch = NoWatch

\* StorageAccess::generateReturnObjectPath, the return object of the passphrase
\* dialog (udisksstorageaccess.cpp)
VARIABLES
    number,                 \* static QAtomicInt number of generateReturnObjectPath
    caller,                 \* per thread: where it is in requestPassphrase()
    m_lastReturnObject,     \* per StorageAccess object: the member
    generated               \* the paths generated so far, in order

pvars == <<number, caller, m_lastReturnObject, generated>>

\* the threads that call requestPassphrase(), the StorageAccess objects they call it on
Callers == {"gui", "job"}
Objects == {"sda1", "sdb1"}

NotCalling == [pc |-> "idle"]

\* no passphrase was requested in the process
PathsUnused ==
    /\ number = 1
    /\ caller = [c \in Callers |-> NotCalling]
    /\ m_lastReturnObject = [o \in Objects |-> <<>>]
    /\ generated = <<>>

\* UdevQt::Client, the udev monitor (udevqtclient.cpp)
VARIABLES
    monitor,                \* the device events waiting in the udev monitor socket
    monitorNotifier,        \* the QSocketNotifier of the socket: is it enabled
    uq                      \* the last run of _uq_monitorReadyRead

uvars == <<monitor, monitorNotifier, uq>>

\* udev_monitor_receive_device() gave no device
NoUdevDevice == [action |-> "-", name |-> "-"]

\* the client listens and nothing has happened
UdevUnused ==
    /\ monitor = <<>>
    /\ monitorNotifier = TRUE
    /\ uq = [op |-> "Client", dev |-> NoUdevDevice, out |-> <<>>]

-----------------------------------------------------------------------------
(* helpers *)

B2S(b) == IF b THEN "true" ELSE "false"

Ev(e, x, y) == [ev |-> e, x |-> x, y |-> y]

Msg(a, t, err) == [action |-> a, type |-> t, error |-> err]

Call(method, target) == [method |-> method, target |-> target, status |-> "sent"]

emit(s, e) == [s EXCEPT !.out = Append(@, e)]

Count(q, x) == Cardinality({i \in 1 .. Len(q) : q[i] = x})

One(c) == SetToBag({c})

BagOf(q) == [c \in {q[i] : i \in 1 .. Len(q)} |-> Count(q, c)]

Has(q, x) == \E i \in 1 .. Len(q) : q[i] = x

\* the members of the object
pre == [su |-> m_setupInProgress, td |-> m_teardownInProgress,
        pr |-> m_passphraseRequested, acc |-> m_isAccessible, flow |-> flow]

\* the handler record before a handler runs
st == [su |-> m_setupInProgress, td |-> m_teardownInProgress,
       pr |-> m_passphraseRequested, acc |-> m_isAccessible,
       newcalls |-> <<>>, bcast |-> <<>>, out |-> <<>>, ret |-> "void"]

-----------------------------------------------------------------------------
(* StorageAccess: queries *)

isLuksDevice == kind = "luks"

clearTextPath == IF kind = "luks" /\ unlocked THEN "ct" ELSE ""

\* isAccessible() that takes an unlocked container for an accessible one
isAccessible_whenUnlocked ==
    IF isLuksDevice
    THEN ~(clearTextPath = "" \/ clearTextPath = "/")
    ELSE mounted

isAccessible ==
    IF isLuksDevice
    THEN IF clearTextPath = "" \/ clearTextPath = "/" THEN FALSE ELSE mounted
    ELSE mounted

updateCache(s) == [s EXCEPT !.acc = isAccessible]

checkAccessibility_alwaysEmits(s) ==
    LET t == updateCache(s)
    IN  emit(t, Ev("accessibilityChanged", B2S(t.acc), "udi"))

checkAccessibility(s) ==
    LET old_isAccessible == s.acc
        t == updateCache(s)
    IN  IF old_isAccessible # t.acc
        THEN emit(t, Ev("accessibilityChanged", B2S(t.acc), "udi"))
        ELSE t

-----------------------------------------------------------------------------
(* Ifaces::Device: action broadcasts *)

broadcastActionRequested(s, a) ==
    [s EXCEPT !.bcast = Append(@, Msg(a, "Requested", "NoError")),
              !.out = Append(@, Ev("broadcastActionRequested", a, "-"))]

broadcastActionDone(s, a, err) ==
    [s EXCEPT !.bcast = Append(@, Msg(a, "Done", err)),
              !.out = Append(@, Ev("broadcastActionDone", a, err))]

errorToSolidError(name) ==
    IF name = "Error.DeviceBusy" THEN "DeviceBusy" ELSE "OperationFailed"

-----------------------------------------------------------------------------
(* StorageAccess: daemon calls *)

callWithCallback(s, method, target, busOk) ==
    IF busOk
    THEN [s EXCEPT !.newcalls = Append(@, Call(method, target)),
                   !.out = Append(@, Ev("call", method, target)),
                   !.ret = "true"]
    ELSE [s EXCEPT !.out = Append(@, Ev("dispatchFailed", method, target)),
                   !.ret = "false"]

callTarget == IF isLuksDevice /\ clearTextPath # "" THEN "ct" ELSE "self"

mount(s, busOk) == callWithCallback(s, "Mount", callTarget, busOk)

\* unmount() that never looks for the cleartext device
unmount_onDevice(s, busOk) == callWithCallback(s, "Unmount", "self", busOk)

unmount(s, busOk) == callWithCallback(s, "Unmount", callTarget, busOk)

callCryptoSetup(s, busOk) ==
    [callWithCallback(s, "Unlock", "self", busOk) EXCEPT !.ret = s.ret]

callCryptoTeardown(s, actOnParent, busOk) ==
    callWithCallback(s, "Lock", IF actOnParent THEN "parent" ELSE "self", busOk)

requestPassphrase_reportsError(s, uiOk) ==
    LET a == emit(s, Ev("registerObject", "m_lastReturnObject", "-"))
        b == emit(a, Ev("showPassphraseDialog", "udi", "m_lastReturnObject"))
        c == [b EXCEPT !.pr = uiOk, !.ret = B2S(uiOk)]
    IN  IF uiOk THEN c
        ELSE broadcastActionDone([c EXCEPT !.su = FALSE], "setup", "OperationFailed")

requestPassphrase(s, uiOk) ==
    LET a == emit(s, Ev("registerObject", "m_lastReturnObject", "-"))
        b == emit(a, Ev("showPassphraseDialog", "udi", "m_lastReturnObject"))
    IN  [b EXCEPT !.pr = uiOk, !.ret = B2S(uiOk)]

-----------------------------------------------------------------------------
(* StorageAccess: setup and teardown *)

setupRejected_onlySetup(s) == s.su

setupRejected(s) == s.td \/ s.su

teardownRejected(s) == s.td \/ s.su

setup(s, uiOk, busOk) ==
    IF setupRejected(s)
    THEN [s EXCEPT !.ret = "false"]
    ELSE LET a == [s EXCEPT !.su = TRUE]
             b == broadcastActionRequested(a, "setup")
         IN  IF isLuksDevice /\ clearTextPath = ""
             THEN requestPassphrase(b, uiOk)
             ELSE mount(b, busOk)

\* teardown() that issues the Unmount request before it announces the action
teardown_unmountFirst(s, busOk) ==
    IF teardownRejected(s)
    THEN [s EXCEPT !.ret = "false"]
    ELSE LET a == [s EXCEPT !.td = TRUE]
             b == unmount(a, busOk)
         IN  broadcastActionRequested(b, "teardown")

teardown(s, busOk) ==
    IF teardownRejected(s)
    THEN [s EXCEPT !.ret = "false"]
    ELSE LET a == [s EXCEPT !.td = TRUE]
             b == broadcastActionRequested(a, "teardown")
         IN  unmount(b, busOk)

-----------------------------------------------------------------------------
(* StorageAccess: completion callbacks of the daemon calls *)

ejectOrPowerOff_powerOffFirst(s, drv) ==
    IF drv.CanPowerOff /\ ~drv.isOpticalDisc
    THEN emit(s, Ev("call", "PowerOff", "drive"))
    ELSE IF drv.MediaRemovable /\ drv.MediaAvailable /\ ~drv.isOpticalDisc
         THEN emit(s, Ev("call", "Eject", "drive"))
         ELSE s

ejectOrPowerOff_ignoresOptical(s, drv) ==
    IF drv.MediaRemovable /\ drv.MediaAvailable
    THEN emit(s, Ev("call", "Eject", "drive"))
    ELSE IF drv.CanPowerOff
         THEN emit(s, Ev("call", "PowerOff", "drive"))
         ELSE s

ejectOrPowerOff_both(s, drv) ==
    LET a == IF drv.MediaRemovable /\ drv.MediaAvailable /\ ~drv.isOpticalDisc
             THEN emit(s, Ev("call", "Eject", "drive")) ELSE s
    IN  IF drv.CanPowerOff /\ ~drv.isOpticalDisc
        THEN emit(a, Ev("call", "PowerOff", "drive")) ELSE a

ejectOrPowerOff_awaited(s, drv) ==
    IF drv.MediaRemovable /\ drv.MediaAvailable /\ ~drv.isOpticalDisc
    THEN [callWithCallback(s, "Eject", "drive", TRUE) EXCEPT !.ret = s.ret]
    ELSE IF drv.CanPowerOff /\ ~drv.isOpticalDisc
         THEN [callWithCallback(s, "PowerOff", "drive", TRUE) EXCEPT !.ret = s.ret]
         ELSE s

ejectOrPowerOff(s, drv) ==
    IF drv.MediaRemovable /\ drv.MediaAvailable /\ ~drv.isOpticalDisc
    THEN emit(s, Ev("call", "Eject", "drive"))
    ELSE IF drv.CanPowerOff /\ ~drv.isOpticalDisc
         THEN emit(s, Ev("call", "PowerOff", "drive"))
         ELSE s

setupReallyDone_always == TRUE

setupReallyDone == ~(isLuksDevice /\ ~isAccessible)

slotDBusReply_noRecheck(s, busOk, drv) ==
    IF s.su
    THEN IF ~setupReallyDone
         THEN [mount(s, busOk) EXCEPT !.ret = "void"]
         ELSE LET a == [s EXCEPT !.su = FALSE]
                  b == emit(a, Ev("invalidateCache", "-", "-"))
              IN  broadcastActionDone(b, "setup", "NoError")
    ELSE IF s.td
         THEN LET ctPath == clearTextPath
              IN  IF isLuksDevice /\ ctPath # "" /\ ctPath # "/"
                  THEN [callCryptoTeardown(s, FALSE, busOk) EXCEPT !.ret = "void"]
                  ELSE IF ctPath # "" /\ ctPath # "/"
                       THEN [callCryptoTeardown(s, TRUE, busOk) EXCEPT !.ret = "void"]
                       ELSE LET a == ejectOrPowerOff(s, drv)
                                b == [a EXCEPT !.td = FALSE]
                                c == emit(b, Ev("invalidateCache", "-", "-"))
                                d == broadcastActionDone(c, "teardown", "NoError")
                            IN  checkAccessibility(d)
         ELSE s

slotDBusReply_lockUnchained(s, busOk, drv) ==
    IF s.su
    THEN IF ~setupReallyDone
         THEN [mount(s, busOk) EXCEPT !.ret = "void"]
         ELSE LET a == [s EXCEPT !.su = FALSE]
                  b == emit(a, Ev("invalidateCache", "-", "-"))
                  c == broadcastActionDone(b, "setup", "NoError")
              IN  checkAccessibility(c)
    ELSE IF s.td
         THEN LET ctPath == clearTextPath
                  l == IF isLuksDevice /\ ctPath # "" /\ ctPath # "/"
                       THEN [callCryptoTeardown(s, FALSE, busOk) EXCEPT !.ret = "void"]
                       ELSE IF ctPath # "" /\ ctPath # "/"
                            THEN [callCryptoTeardown(s, TRUE, busOk) EXCEPT !.ret = "void"]
                            ELSE ejectOrPowerOff(s, drv)
                  b == [l EXCEPT !.td = FALSE]
                  c == emit(b, Ev("invalidateCache", "-", "-"))
                  d == broadcastActionDone(c, "teardown", "NoError")
              IN  checkAccessibility(d)
         ELSE s

slotDBusReply(s, busOk, drv) ==
    IF s.su
    THEN IF ~setupReallyDone
         THEN [mount(s, busOk) EXCEPT !.ret = "void"]
         ELSE LET a == [s EXCEPT !.su = FALSE]
                  b == emit(a, Ev("invalidateCache", "-", "-"))
                  c == broadcastActionDone(b, "setup", "NoError")
              IN  checkAccessibility(c)
    ELSE IF s.td
         THEN LET ctPath == clearTextPath
              IN  IF isLuksDevice /\ ctPath # "" /\ ctPath # "/"
                  THEN [callCryptoTeardown(s, FALSE, busOk) EXCEPT !.ret = "void"]
                  ELSE IF ctPath # "" /\ ctPath # "/"
                       THEN [callCryptoTeardown(s, TRUE, busOk) EXCEPT !.ret = "void"]
                       ELSE LET a == ejectOrPowerOff(s, drv)
                                b == [a EXCEPT !.td = FALSE]
                                c == emit(b, Ev("invalidateCache", "-", "-"))
                                d == broadcastActionDone(c, "teardown", "NoError")
                            IN  checkAccessibility(d)
         ELSE s

slotDBusError(s, name) ==
    IF s.su
    THEN LET a == [s EXCEPT !.su = FALSE]
             b == broadcastActionDone(a, "setup", errorToSolidError(name))
         IN  checkAccessibility(b)
    ELSE IF s.td
         THEN LET a == [s EXCEPT !.td = FALSE]
                  b == broadcastActionDone(a, "teardown", errorToSolidError(name))
              IN  checkAccessibility(b)
         ELSE s

-----------------------------------------------------------------------------
(* StorageAccess: slots of the action broadcasts of other processes *)

slotSetupRequested(s) ==
    emit([s EXCEPT !.su = TRUE], Ev("emit", "setupRequested", "udi"))

\* slotSetupDone() that emits the signal before it rechecks the accessibility
slotSetupDone_signalFirst(s, err) ==
    checkAccessibility(emit([s EXCEPT !.su = FALSE], Ev("emit", "setupDone", err)))

slotSetupDone(s, err) ==
    emit(checkAccessibility([s EXCEPT !.su = FALSE]), Ev("emit", "setupDone", err))

slotTeardownRequested(s) ==
    emit([s EXCEPT !.td = TRUE], Ev("emit", "teardownRequested", "udi"))

slotTeardownDone(s, err) ==
    emit(checkAccessibility([s EXCEPT !.td = FALSE]), Ev("emit", "teardownDone", err))

-----------------------------------------------------------------------------
(* StorageAccess: the passphrase reply *)

passphraseReply_unlocksAnyway(s, passphrase, busOk) ==
    IF s.pr
    THEN LET a == emit(s, Ev("unregisterObject", "m_lastReturnObject", "-"))
             b == [a EXCEPT !.pr = FALSE]
         IN  callCryptoSetup(b, busOk)
    ELSE s

passphraseReply_keepsRequested(s, passphrase, busOk) ==
    IF s.pr
    THEN LET a == emit(s, Ev("unregisterObject", "m_lastReturnObject", "-"))
         IN  IF passphrase # ""
             THEN callCryptoSetup(a, busOk)
             ELSE broadcastActionDone([a EXCEPT !.su = FALSE], "setup", "UserCanceled")
    ELSE s

passphraseReply(s, passphrase, busOk) ==
    IF s.pr
    THEN LET a == emit(s, Ev("unregisterObject", "m_lastReturnObject", "-"))
             b == [a EXCEPT !.pr = FALSE]
         IN  IF passphrase # ""
             THEN callCryptoSetup(b, busOk)
             ELSE broadcastActionDone([b EXCEPT !.su = FALSE], "setup", "UserCanceled")
    ELSE s

-----------------------------------------------------------------------------
(* the state machine *)

NoArg == [none |-> TRUE]

NoDrive == [MediaRemovable |-> FALSE, MediaAvailable |-> FALSE,
            CanPowerOff |-> FALSE, isOpticalDisc |-> FALSE]

\* an input the handler reads is any boolean; one it does not read is fixed
Reads(used) == IF used THEN BOOLEAN ELSE {TRUE}

setupAsksPassphrase(s) == ~setupRejected(s) /\ isLuksDevice /\ clearTextPath = ""

setupMounts(s) == ~setupRejected(s) /\ ~(isLuksDevice /\ clearTextPath = "")

replyCalls(s) ==
    \/ s.su /\ ~setupReallyDone
    \/ ~s.su /\ s.td /\ clearTextPath # ""

replyReadsDrive(s) == ~s.su /\ s.td /\ clearTextPath = ""

Step(op, arg, s) ==
    [op |-> op, arg |-> arg, pre |-> pre, ret |-> s.ret, out |-> s.out,
     sent |-> s.newcalls, bcast |-> s.bcast]

\* The setup of a locked container, followed from the accepted setup() on:
\*   phase     "locked"  setup() was accepted with no cleartext device resolvable
\*             "unlock"  the passphrase came and the Unlock call is out
\*             "mount"   the reply to that Unlock was handled and the Mount call is out
\*             "broken"  a success reply in phase "mount" did not end the setup
\*   clean     the cached accessibility was false and no call was pending when
\*             setup() was accepted, and no other client has acted since
\*   notified  accessibilityChanged(true) notifications of a clean setup so far
\*             (2 is "more")
Idle == [phase |-> "idle", clean |-> FALSE, notified |-> 0]

Notified(s) == Count(s.out, Ev("accessibilityChanged", "true", "udi"))

Min(a, b) == IF a < b THEN a ELSE b

FlowPhase(op, arg, s) ==
    CASE op = "setup" /\ ~setupRejected(st) -> "locked"
      [] op = "passphraseReply" /\ flow.phase = "locked"
            /\ Has(s.newcalls, Call("Unlock", "self")) -> "unlock"
      [] op = "slotDBusReply" /\ flow.phase = "unlock" /\ arg.call.method = "Unlock"
            /\ s.newcalls # <<>> -> "mount"
      [] op = "slotDBusReply" /\ flow.phase = "mount" -> "broken"
      [] OTHER -> flow.phase

FlowNext(op, arg, s) ==
    IF ~s.su \/ (op = "setup" /\ ~setupRejected(st) /\ ~arg.locked)
    THEN Idle
    ELSE IF op = "setup" /\ ~setupRejected(st)
         THEN [phase |-> "locked", clean |-> ~m_isAccessible /\ calls = EmptyBag,
               notified |-> 0]
         ELSE IF flow.phase = "idle"
              THEN Idle
              ELSE [phase |-> FlowPhase(op, arg, s), clean |-> flow.clean,
                    notified |-> IF flow.clean
                                 THEN Min(2, flow.notified + Notified(s)) ELSE 0]

Init ==
    /\ kind \in Kinds
    /\ unlocked \in BOOLEAN
    /\ mounted \in BOOLEAN
    /\ kind = "plain" => ~unlocked
    /\ kind = "luks" => (mounted => unlocked)
    /\ kind = "cleartext" => unlocked
    /\ m_setupInProgress = FALSE
    /\ m_teardownInProgress = FALSE
    /\ m_passphraseRequested = FALSE
    /\ m_isAccessible = isAccessible
    /\ calls = EmptyBag
    /\ peerAction = "idle"
    /\ peerActions = 0
    /\ attempts = 0
    /\ owed = 0
    /\ flow = Idle
    /\ last = Step("StorageAccess", NoArg, updateCache(st))
    /\ FstabUnused
    /\ PathsUnused
    /\ UdevUnused

Dones(s) == Cardinality({i \in 1 .. Len(s.bcast) : s.bcast[i].type = "Done"})

Accepted(op, a) ==
    IF op = a /\ ~m_setupInProgress /\ ~m_teardownInProgress THEN 1 ELSE 0

\* the object ran handler op with inputs arg and result s; cbase is what is left
\* of its pending calls and peer the action the other process has in flight
Apply(s, cbase, peer, op, arg) ==
    /\ m_setupInProgress' = s.su
    /\ m_teardownInProgress' = s.td
    /\ m_passphraseRequested' = s.pr
    /\ m_isAccessible' = s.acc
    /\ calls' = cbase (+) BagOf(s.newcalls)
    /\ peerAction' = peer
    /\ peerActions' = IF peer \in Actions /\ peerAction = "idle"
                      THEN peerActions + 1 ELSE peerActions
    /\ owed' = owed + Accepted(op, "setup") + Accepted(op, "teardown") - Dones(s)
    /\ attempts' = attempts + Accepted(op, "setup") + Accepted(op, "teardown")
    /\ flow' = FlowNext(op, arg, s)
    /\ last' = Step(op, arg, s)
    /\ UNCHANGED <<kind, unlocked, mounted>>
    /\ UNCHANGED <<fvars, pvars, uvars>>

Setup ==
    \E uiOk \in Reads(setupAsksPassphrase(st)), busOk \in Reads(setupMounts(st)) :
        /\ setupRejected(st) \/ attempts < MaxAttempts
        /\ Apply(setup(st, uiOk, busOk), calls, peerAction, "setup",
                 [locked |-> isLuksDevice /\ clearTextPath = "", uiOk |-> uiOk])

Teardown ==
    \E busOk \in Reads(~teardownRejected(st)) :
        /\ teardownRejected(st) \/ attempts < MaxAttempts
        /\ Apply(teardown(st, busOk), calls, peerAction, "teardown", NoArg)

DBusReply ==
    \E call \in BagToSet(calls),
       busOk \in Reads(replyCalls(st)),
       drv \in (IF replyReadsDrive(st) THEN DriveProps ELSE {NoDrive}) :
        /\ call.status = "ok"
        /\ Apply(slotDBusReply(st, busOk, drv), calls (-) One(call), peerAction,
                 "slotDBusReply", [call |-> call, drv |-> drv])

DBusError ==
    \E call \in BagToSet(calls), name \in ErrorNames :
        /\ call.status = "error"
        /\ Apply(slotDBusError(st, name), calls (-) One(call), peerAction,
                 "slotDBusError", [call |-> call, name |-> name])

\* the broadcasts of the StorageAccess of the device in another process: it
\* announces an action, and later its end
PeerStarts == peerAction = "idle" /\ peerActions < MaxPeerActions

SetupRequested ==
    /\ PeerStarts
    /\ Apply(slotSetupRequested(st), calls, "setup", "slotSetupRequested", NoArg)

SetupDone ==
    \E error \in PeerErrors :
        /\ peerAction = "setup"
        /\ Apply(slotSetupDone(st, error), calls, "idle", "slotSetupDone",
                 [error |-> error])

TeardownRequested ==
    /\ PeerStarts
    /\ Apply(slotTeardownRequested(st), calls, "teardown", "slotTeardownRequested",
             NoArg)

TeardownDone ==
    \E error \in PeerErrors :
        /\ peerAction = "teardown"
        /\ Apply(slotTeardownDone(st, error), calls, "idle", "slotTeardownDone",
                 [error |-> error])

PassphraseReply ==
    \E passphrase \in Passphrases :
      \E busOk \in Reads(m_passphraseRequested /\ passphrase # "") :
        Apply(passphraseReply(st, passphrase, busOk), calls, peerAction, "passphraseReply",
              IF m_passphraseRequested THEN [passphrase |-> passphrase] ELSE NoArg)

DeviceChanged ==
    Apply(checkAccessibility(st), calls, peerAction, "checkAccessibility", NoArg)

-----------------------------------------------------------------------------
(* the surroundings *)

\* what the UDisks2 daemon accepts in the present state of the device
Applicable(method, target) ==
    CASE method = "Mount" /\ target = "self" -> kind \in {"plain", "cleartext"} /\ ~mounted
      [] method = "Mount" /\ target = "ct" -> kind = "luks" /\ unlocked /\ ~mounted
      [] method = "Unmount" /\ target = "self" -> kind \in {"plain", "cleartext"} /\ mounted
      [] method = "Unmount" /\ target = "ct" -> kind = "luks" /\ unlocked /\ mounted
      [] method = "Unlock" /\ target = "self" -> kind = "luks" /\ ~unlocked
      [] method = "Lock" /\ target = "self" -> kind = "luks" /\ unlocked /\ ~mounted
      [] method = "Lock" /\ target = "parent" -> kind = "cleartext" /\ unlocked /\ ~mounted
      [] OTHER -> FALSE

Effect(method) ==
    /\ mounted' = IF method = "Mount" THEN TRUE
                  ELSE IF method = "Unmount" THEN FALSE ELSE mounted
    /\ unlocked' = IF method = "Unlock" THEN TRUE
                   ELSE IF method = "Lock" THEN FALSE ELSE unlocked

Quiet(op, arg) ==
    [op |-> op, arg |-> arg, pre |-> pre, ret |-> "void", out |-> <<>>,
     sent |-> <<>>, bcast |-> <<>>]

\* the daemon serves one pending call of the object
Daemon ==
    \E c \in BagToSet(calls), ok \in BOOLEAN :
        /\ c.status = "sent"
        /\ IF ok
           THEN /\ Applicable(c.method, c.target)
                /\ calls' = (calls (-) One(c)) (+) One([c EXCEPT !.status = "ok"])
                /\ Effect(c.method)
           ELSE /\ calls' = (calls (-) One(c)) (+) One([c EXCEPT !.status = "error"])
                /\ UNCHANGED <<mounted, unlocked>>
        /\ last' = Quiet("daemon", [call |-> c, ok |-> ok])
        /\ UNCHANGED <<kind, m_setupInProgress, m_teardownInProgress,
                       m_passphraseRequested, m_isAccessible, peerAction,
                       peerActions, attempts, owed, flow>>
        /\ UNCHANGED <<fvars, pvars, uvars>>

\* the daemon serves a call of another client of the device
OtherClient ==
    \E method \in {"Mount", "Unmount", "Unlock", "Lock"} :
        /\ Applicable(method, IF method \in {"Unlock", "Lock"} THEN "self" ELSE callTarget)
        /\ Effect(method)
        /\ flow' = IF flow.phase = "idle" THEN flow
                   ELSE [flow EXCEPT !.clean = FALSE, !.notified = 0]
        /\ last' = Quiet("otherClient", [method |-> method])
        /\ UNCHANGED <<kind, m_setupInProgress, m_teardownInProgress,
                       m_passphraseRequested, m_isAccessible, calls, peerAction,
                       peerActions, attempts, owed>>
        /\ UNCHANGED <<fvars, pvars, uvars>>

Next ==
    \/ Setup
    \/ Teardown
    \/ DBusReply
    \/ DBusError
    \/ SetupRequested
    \/ SetupDone
    \/ TeardownRequested
    \/ TeardownDone
    \/ PassphraseReply
    \/ DeviceChanged
    \/ Daemon
    \/ OtherClient

Spec == Init /\ [][Next]_<<vars, fvars, pvars, uvars>>

-----------------------------------------------------------------------------
TypeOK ==
    /\ kind \in Kinds
    /\ unlocked \in BOOLEAN /\ mounted \in BOOLEAN
    /\ m_setupInProgress \in BOOLEAN
    /\ m_teardownInProgress \in BOOLEAN
    /\ m_passphraseRequested \in BOOLEAN
    /\ m_isAccessible \in BOOLEAN
    /\ attempts \in 0 .. MaxAttempts
    /\ peerActions \in 0 .. MaxPeerActions
    /\ kind = "luks" => (mounted => unlocked)
    /\ kind = "plain" => ~unlocked
    /\ kind = "cleartext" => unlocked

-----------------------------------------------------------------------------
(* FstabHandling: strings and hashes *)

\* A string is a sequence of pieces, so that a prefix, a concatenation and a
\* split are computed: "fuse.encfs" is <<"fuse.", "encfs">>, "ro,soft" is
\* <<"ro", ",", "soft">>.  The empty QString is <<>>.
startsWith(str, prefix) ==
    /\ Len(str) >= Len(prefix)
    /\ SubSeq(str, 1, Len(prefix)) = prefix

\* QString::split(sep): the parts between the separators, empty parts kept
RECURSIVE split(_, _)
split(str, sep) ==
    IF \E i \in 1 .. Len(str) : str[i] = sep
    THEN LET i == CHOOSE k \in 1 .. Len(str) :
                      str[k] = sep /\ \A j \in 1 .. k - 1 : str[j] # sep
         IN  <<SubSeq(str, 1, i - 1)>> \o split(SubSeq(str, i + 1, Len(str)), sep)
    ELSE <<str>>

\* QMultiHash: the insertions, the most recent one first
insert(hash, key, value) == <<[key |-> key, value |-> value]>> \o hash

\* QMultiHash::values(key): the values of the key, the most recent one first
values(hash, key) ==
    LET found == SelectSeq(hash, LAMBDA e : e.key = key)
    IN  [i \in 1 .. Len(found) |-> found[i].value]

\* QMultiHash::keys(): the order of the keys is the hash's own, so a list of
\* keys is compared as a collection
keys(hash) == {hash[i].key : i \in 1 .. Len(hash)}

\* QStringList::removeDuplicates(): the first occurrence of each string stays
RECURSIVE removeDuplicates(_)
removeDuplicates(list) ==
    IF list = <<>>
    THEN <<>>
    ELSE LET front == removeDuplicates(SubSeq(list, 1, Len(list) - 1))
             x == list[Len(list)]
         IN  IF Has(front, x) THEN front ELSE Append(front, x)

\* QHash::insert(key, value): one value per key, an insertion replaces it
insertType(hash, key, value) ==
    [k \in DOMAIN hash \cup {key} |-> IF k = key THEN value ELSE hash[k]]

\* QHash::value(key): the value of the key, the empty string without one
value(hash, key) == IF key \in DOMAIN hash THEN hash[key] ELSE <<>>

-----------------------------------------------------------------------------
(* FstabHandling: the mount tables *)

\* entries of a mount table (struct mntent)
NfsEntry ==
    [mnt_fsname |-> <<"srv:/x">>, mnt_type |-> <<"nfs">>,
     mnt_dir |-> <<"/mnt/a">>, mnt_opts |-> <<"ro", ",", "soft">>]

ExtEntry ==
    [mnt_fsname |-> <<"/dev/sda1">>, mnt_type |-> <<"ext4">>,
     mnt_dir |-> <<"/">>, mnt_opts |-> <<"defaults">>]

\* a share named by "//host/share" whose type is none of the four network types
SmbEntry ==
    [mnt_fsname |-> <<"//", "host/share">>, mnt_type |-> <<"smb3">>,
     mnt_dir |-> <<"/mnt/s">>, mnt_opts |-> <<"rw">>]

EncfsEntry ==
    [mnt_fsname |-> <<"encfs">>, mnt_type |-> <<"fuse.", "encfs">>,
     mnt_dir |-> <<"/home/u/priv">>, mnt_opts |-> <<"rw", ",", "nosuid">>]

Tables == {<<>>, <<ExtEntry, NfsEntry, SmbEntry, EncfsEntry>>}

\* a mount table file: setmntent() fails on one that is not readable
Files == {NoFile} \cup {[readable |-> TRUE, entries |-> e] : e \in Tables}

\* the devices asked about
Devices == {<<"srv:/x">>, <<"/dev/sda1">>, <<"//", "host/share">>}

NoDevice == <<>>

_k_isFstabNetworkFileSystem(type, devName) ==
    \/ type = <<"nfs">>
    \/ type = <<"nfs4">>
    \/ type = <<"smbfs">>
    \/ type = <<"cifs">>
    \/ startsWith(devName, <<"//">>)

_k_isFstabSupportedLocalFileSystem(type) ==
    \/ type = <<"fuse.", "encfs">>
    \/ type = <<"fuse.", "cryfs">>
    \/ type = <<"overlay">>

_k_deviceNameForMountpoint(source, type, mountpoint) ==
    IF startsWith(type, <<"fuse.">>) \/ type = <<"overlay">>
    THEN type \o mountpoint
    ELSE source

\* the device names of the entries of the tables
DeviceNames ==
    UNION {{_k_deviceNameForMountpoint(e[i].mnt_fsname, e[i].mnt_type, e[i].mnt_dir) :
               i \in 1 .. Len(e)} : e \in Tables}

\* while (!options.isEmpty()) m_fstabOptionsCache.insert(device, options.takeFirst())
RECURSIVE insertOptions(_, _, _)
insertOptions(hash, device, opts) ==
    IF opts = <<>>
    THEN hash
    ELSE insertOptions(insert(hash, device, Head(opts)), device, Tail(opts))

\* the getmntent() loop of _k_updateFstabMountPointsCache over the entries left
RECURSIVE readFstab(_, _)
readFstab(d, entries) ==
    IF entries = <<>>
    THEN d
    ELSE LET fe == Head(entries)
             fsname == fe.mnt_fsname
             type == fe.mnt_type
         IN  IF \/ _k_isFstabNetworkFileSystem(type, fsname)
                \/ _k_isFstabSupportedLocalFileSystem(type)
             THEN LET mountpoint == fe.mnt_dir
                      device == _k_deviceNameForMountpoint(fsname, type, mountpoint)
                      opts == split(fe.mnt_opts, ",")
                  IN  readFstab(
                          [d EXCEPT
                              !.m_fstabCache = insert(@, device, mountpoint),
                              !.m_fstabFstypeCache = insertType(@, device, type),
                              !.m_fstabOptionsCache = insertOptions(@, device, opts)],
                          Tail(entries))
             ELSE readFstab(d, Tail(entries))

\* _k_updateFstabMountPointsCache() that opens the file before it clears the
\* caches, and so keeps the old entries when the file cannot be opened
_k_updateFstabMountPointsCache_keepsOnFailure(d, fstab) ==
    IF d.m_fstabCacheValid \/ ~fstab.readable
    THEN d
    ELSE LET c == [d EXCEPT !.m_fstabCache = <<>>, !.m_fstabOptionsCache = <<>>]
         IN  [readFstab(c, fstab.entries) EXCEPT !.m_fstabCacheValid = TRUE]

_k_updateFstabMountPointsCache(d, fstab) ==
    IF d.m_fstabCacheValid
    THEN d
    ELSE LET c == [d EXCEPT !.m_fstabCache = <<>>, !.m_fstabOptionsCache = <<>>]
         IN  IF ~fstab.readable
             THEN c
             ELSE [readFstab(c, fstab.entries) EXCEPT !.m_fstabCacheValid = TRUE]

\* the GETMNTENT loop of _k_updateMtabMountPointsCache over the entries left
RECURSIVE readMtab(_, _)
readMtab(d, entries) ==
    IF entries = <<>>
    THEN d
    ELSE LET fe == Head(entries)
             type == fe.mnt_type
         IN  IF \/ _k_isFstabNetworkFileSystem(type, <<>>)
                \/ _k_isFstabSupportedLocalFileSystem(type)
             THEN LET fsname == fe.mnt_fsname
                      mountpoint == fe.mnt_dir
                      device == _k_deviceNameForMountpoint(fsname, type, mountpoint)
                  IN  readMtab(
                          [d EXCEPT
                              !.m_mtabCache = insert(@, device, mountpoint),
                              !.m_fstabFstypeCache = insertType(@, device, type)],
                          Tail(entries))
             ELSE readMtab(d, Tail(entries))

_k_updateMtabMountPointsCache(d, mtab) ==
    IF d.m_mtabCacheValid
    THEN d
    ELSE LET c == [d EXCEPT !.m_mtabCache = <<>>]
         IN  IF ~mtab.readable
             THEN c
             ELSE [readMtab(c, mtab.entries) EXCEPT !.m_mtabCacheValid = TRUE]

\* a query gives the thread's FstabHandling after it and the value returned
Answer(d, ret) == [data |-> d, ret |-> ret]

deviceList(d) ==
    LET c == _k_updateMtabMountPointsCache(
                 _k_updateFstabMountPointsCache(d, fstabFile), mtabFile)
    IN  Answer(c, keys(c.m_fstabCache) \cup keys(c.m_mtabCache))

mountPoints(d, device) ==
    LET c == _k_updateMtabMountPointsCache(
                 _k_updateFstabMountPointsCache(d, fstabFile), mtabFile)
    IN  Answer(c, removeDuplicates(values(c.m_fstabCache, device)
                                   \o values(c.m_mtabCache, device)))

options(d, device) ==
    LET c == _k_updateFstabMountPointsCache(d, fstabFile)
    IN  Answer(c, values(c.m_fstabOptionsCache, device))

fstype(d, device) ==
    LET c == _k_updateFstabMountPointsCache(d, fstabFile)
    IN  Answer(c, value(c.m_fstabFstypeCache, device))

currentMountPoints(d, device) ==
    LET c == _k_updateMtabMountPointsCache(d, mtabFile)
    IN  Answer(c, values(c.m_mtabCache, device))

flushMtabCache(d) == Answer([d EXCEPT !.m_mtabCacheValid = FALSE], "void")

flushFstabCache(d) == Answer([d EXCEPT !.m_fstabCacheValid = FALSE], "void")

-----------------------------------------------------------------------------
(* FstabHandling: the state machine *)

Queries == {"deviceList", "mountPoints", "options", "fstype", "currentMountPoints"}

Flushes == {"flushMtabCache", "flushFstabCache"}

\* the StorageAccess object is not used
StorageUnused ==
    /\ kind = "plain"
    /\ unlocked = FALSE
    /\ mounted = FALSE
    /\ m_setupInProgress = FALSE
    /\ m_teardownInProgress = FALSE
    /\ m_passphraseRequested = FALSE
    /\ m_isAccessible = isAccessible
    /\ calls = EmptyBag
    /\ peerAction = "idle"
    /\ peerActions = 0
    /\ attempts = 0
    /\ owed = 0
    /\ flow = Idle
    /\ last = Step("StorageAccess", NoArg, updateCache(st))

FstabInit ==
    /\ StorageUnused
    /\ PathsUnused
    /\ UdevUnused
    /\ fstabFile \in Files
    /\ mtabFile \in Files
    /\ localData = [th \in Threads |-> FstabHandling]
    /\ watch = NoWatch

\* FstabStep with one FstabHandling for the whole process instead of one per thread
FstabStep_shared(th, op, device, r) ==
    /\ localData' = [x \in Threads |-> r.data]
    /\ IF op \in Flushes
       THEN watch' = IF watch.on /\ watch.th = th THEN NoWatch ELSE watch
       ELSE \/ watch' = watch
            \/ /\ ~watch.on
               /\ watch' = [on |-> TRUE, th |-> th, op |-> op, device |-> device,
                            result |-> r.ret]
    /\ UNCHANGED <<fstabFile, mtabFile>>
    /\ UNCHANGED <<vars, pvars, uvars>>

\* thread th runs the operation op about device, with answer r; a query that
\* is not preceded by a remembered one may be remembered, and a flush of the
\* thread forgets the query remembered for it
FstabStep(th, op, device, r) ==
    /\ localData' = [localData EXCEPT ![th] = r.data]
    /\ IF op \in Flushes
       THEN watch' = IF watch.on /\ watch.th = th THEN NoWatch ELSE watch
       ELSE \/ watch' = watch
            \/ /\ ~watch.on
               /\ watch' = [on |-> TRUE, th |-> th, op |-> op, device |-> device,
                            result |-> r.ret]
    /\ UNCHANGED <<fstabFile, mtabFile>>
    /\ UNCHANGED <<vars, pvars, uvars>>

DeviceList(th) == FstabStep(th, "deviceList", NoDevice, deviceList(localData[th]))

MountPoints(th, device) ==
    FstabStep(th, "mountPoints", device, mountPoints(localData[th], device))

Options(th, device) ==
    FstabStep(th, "options", device, options(localData[th], device))

Fstype(th, device) ==
    FstabStep(th, "fstype", device, fstype(localData[th], device))

CurrentMountPoints(th, device) ==
    FstabStep(th, "currentMountPoints", device,
              currentMountPoints(localData[th], device))

FlushMtabCache(th) ==
    FstabStep(th, "flushMtabCache", NoDevice, flushMtabCache(localData[th]))

FlushFstabCache(th) ==
    FstabStep(th, "flushFstabCache", NoDevice, flushFstabCache(localData[th]))

\* the administrator rewrites the static mount configuration
EditFstab ==
    /\ fstabFile' \in Files \ {fstabFile}
    /\ UNCHANGED <<mtabFile, localData, watch>>
    /\ UNCHANGED <<vars, pvars, uvars>>

\* a file system is mounted or unmounted: the live mount table changes
EditMtab ==
    /\ mtabFile' \in Files \ {mtabFile}
    /\ UNCHANGED <<fstabFile, localData, watch>>
    /\ UNCHANGED <<vars, pvars, uvars>>

FstabNext ==
    \/ \E th \in Threads : DeviceList(th)
    \/ \E th \in Threads, device \in Devices : MountPoints(th, device)
    \/ \E th \in Threads, device \in Devices : Options(th, device)
    \/ \E th \in Threads, device \in Devices : Fstype(th, device)
    \/ \E th \in Threads, device \in Devices : CurrentMountPoints(th, device)
    \/ \E th \in Threads : FlushMtabCache(th)
    \/ \E th \in Threads : FlushFstabCache(th)
    \/ EditFstab
    \/ EditMtab

FstabSpec == FstabInit /\ [][FstabNext]_<<vars, fvars, pvars, uvars>>

FstabTypeOK ==
    /\ fstabFile \in Files
    /\ mtabFile \in Files
    /\ \A th \in Threads :
           /\ localData[th].m_fstabCacheValid \in BOOLEAN
           /\ localData[th].m_mtabCacheValid \in BOOLEAN
           /\ keys(localData[th].m_fstabCache) \subseteq DeviceNames
           /\ keys(localData[th].m_mtabCache) \subseteq DeviceNames
    /\ watch.on \in BOOLEAN
    /\ watch.on => watch.th \in Threads /\ watch.op \in Queries

-----------------------------------------------------------------------------
(* StorageAccess: the return object path of requestPassphrase *)

\* n + 1 in a 32 bit int: the largest value is followed by the smallest
INT_MAX == 2147483647

Int32Inc(n) == IF n = INT_MAX THEN (0 - INT_MAX) - 1 ELSE n + 1

Digit(d) == CASE d = 0 -> "0" [] d = 1 -> "1" [] d = 2 -> "2" [] d = 3 -> "3"
              [] d = 4 -> "4" [] d = 5 -> "5" [] d = 6 -> "6" [] d = 7 -> "7"
              [] d = 8 -> "8" [] d = 9 -> "9"

\* QString::number(n): the decimal digits, "-" first for a negative number
RECURSIVE QString_number(_)
QString_number(n) ==
    IF n < 0 THEN <<"-">> \o QString_number(0 - n)
    ELSE IF n < 10 THEN <<Digit(n)>>
    ELSE Append(QString_number(n \div 10), Digit(n % 10))

\* number++ where the counter does not move
fetchAndAdd_stuck(n) == [ret |-> n, number |-> n]

\* number++ on the QAtomicInt: one indivisible step gives the old value and adds one
fetchAndAdd(n) == [ret |-> n, number |-> Int32Inc(n)]

\* the threads inside requestPassphrase()
Calling == {c \in Callers : caller[c].pc # "idle"}

\* a thread enters requestPassphrase() on a StorageAccess object and runs
\* generateReturnObjectPath(): it takes its number
GenerateReturnObjectPath(c, o) ==
    /\ caller[c].pc = "idle"
    /\ Len(generated) + Cardinality(Calling) < MaxPaths
    /\ LET r == fetchAndAdd(number)
       IN  /\ number' = r.number
           /\ caller' = [caller EXCEPT ![c] =
                  [pc |-> "generated", object |-> o,
                   path |-> <<"/org/kde/solid/UDisks2StorageAccess_">>
                                \o QString_number(r.ret)]]
    /\ UNCHANGED <<m_lastReturnObject, generated>>
    /\ UNCHANGED <<vars, fvars, uvars>>

\* the thread stores the path in m_lastReturnObject and registers the object
\* under it
RegisterObject(c) ==
    /\ caller[c].pc = "generated"
    /\ m_lastReturnObject' = [m_lastReturnObject EXCEPT ![caller[c].object] = caller[c].path]
    /\ generated' = Append(generated, caller[c].path)
    /\ caller' = [caller EXCEPT ![c] = NotCalling]
    /\ UNCHANGED number
    /\ UNCHANGED <<vars, fvars, uvars>>

PathInit ==
    /\ StorageUnused
    /\ FstabUnused
    /\ PathsUnused
    /\ UdevUnused

PathNext ==
    \/ \E c \in Callers, o \in Objects : GenerateReturnObjectPath(c, o)
    \/ \E c \in Callers : RegisterObject(c)

PathSpec == PathInit /\ [][PathNext]_<<vars, fvars, pvars, uvars>>

-----------------------------------------------------------------------------
(* UdevQt::Client: the handler of the udev monitor *)

\* the actions udev_device_get_action() reports: the seven the client knows, one
\* it does not know, and none at all (a null pointer, an empty QByteArray)
UdevActions == {"add", "remove", "change", "online", "offline", "bind", "unbind",
                "move", ""}

UdevNames == {"sdb"}

UdevEvents == [action : UdevActions, name : UdevNames]

\* the handler record of _uq_monitorReadyRead: the notifier and, in program
\* order, what the handler did
uqStart == [notifier |-> monitorNotifier, out |-> <<>>]

setEnabled(h, on) ==
    [h EXCEPT !.notifier = on, !.out = Append(@, Ev("setEnabled", B2S(on), "-"))]

\* _uq_monitorReadyRead that returns for a missing device before it enables the
\* notifier again
_uq_monitorReadyRead_enablesLate(h, dev) ==
    LET a == setEnabled(h, FALSE)
    IN  IF dev = NoUdevDevice
        THEN a
        ELSE LET b == setEnabled(a, TRUE)
                 action == dev.action
             IN  IF action = "add" THEN emit(b, Ev("emit", "deviceAdded", dev.name))
                 ELSE IF action = "remove" THEN emit(b, Ev("emit", "deviceRemoved", dev.name))
                 ELSE IF action = "change" THEN emit(b, Ev("emit", "deviceChanged", dev.name))
                 ELSE IF action = "online" THEN emit(b, Ev("emit", "deviceOnlined", dev.name))
                 ELSE IF action = "offline" THEN emit(b, Ev("emit", "deviceOfflined", dev.name))
                 ELSE IF action = "bind" THEN emit(b, Ev("emit", "deviceBound", dev.name))
                 ELSE IF action = "unbind" THEN emit(b, Ev("emit", "deviceUnbound", dev.name))
                 ELSE emit(b, Ev("qWarning", "unhandled device action", action))

\* dev is what udev_monitor_receive_device() returned
_uq_monitorReadyRead(h, dev) ==
    LET a == setEnabled(h, FALSE)
        b == setEnabled(a, TRUE)
    IN  IF dev = NoUdevDevice
        THEN b
        ELSE LET action == dev.action
             IN  IF action = "add" THEN emit(b, Ev("emit", "deviceAdded", dev.name))
                 ELSE IF action = "remove" THEN emit(b, Ev("emit", "deviceRemoved", dev.name))
                 ELSE IF action = "change" THEN emit(b, Ev("emit", "deviceChanged", dev.name))
                 ELSE IF action = "online" THEN emit(b, Ev("emit", "deviceOnlined", dev.name))
                 ELSE IF action = "offline" THEN emit(b, Ev("emit", "deviceOfflined", dev.name))
                 ELSE IF action = "bind" THEN emit(b, Ev("emit", "deviceBound", dev.name))
                 ELSE IF action = "unbind" THEN emit(b, Ev("emit", "deviceUnbound", dev.name))
                 ELSE emit(b, Ev("qWarning", "unhandled device action", action))

\* the kernel reports a device event: it waits in the monitor socket
UdevEvent ==
    \E e \in UdevEvents :
        /\ Len(monitor) < MaxEvents
        /\ monitor' = Append(monitor, e)
        /\ UNCHANGED <<monitorNotifier, uq>>
        /\ UNCHANGED <<vars, fvars, pvars>>

\* the notifier fires and the handler runs.  udev_monitor_receive_device() gives
\* the first waiting event, or no device: nothing waits (the readiness was
\* spurious), or the event is consumed and not delivered (received is FALSE)
MonitorReadyRead ==
    \E received \in BOOLEAN :
        /\ monitorNotifier
        /\ monitor = <<>> => ~received
        /\ LET dev == IF received THEN Head(monitor) ELSE NoUdevDevice
               h == _uq_monitorReadyRead(uqStart, dev)
           IN  /\ monitorNotifier' = h.notifier
               /\ uq' = [op |-> "_uq_monitorReadyRead", dev |-> dev, out |-> h.out]
        /\ monitor' = IF monitor = <<>> THEN <<>> ELSE Tail(monitor)
        /\ UNCHANGED <<vars, fvars, pvars>>

UdevInit ==
    /\ StorageUnused
    /\ FstabUnused
    /\ PathsUnused
    /\ UdevUnused

UdevNext ==
    \/ UdevEvent
    \/ MonitorReadyRead

UdevSpec == UdevInit /\ [][UdevNext]_<<vars, fvars, pvars, uvars>>

-----------------------------------------------------------------------------
(* properties *)

AcceptedCall == last.op \in Actions /\ ~last.pre.su /\ ~last.pre.td

RejectedCall == last.op \in Actions /\ (last.pre.su \/ last.pre.td)

SentCall(method) == \E i \in 1 .. Len(last.sent) : last.sent[i].method = method

DoneSent(a) ==
    \E i \in 1 .. Len(last.bcast) : last.bcast[i].action = a /\ last.bcast[i].type = "Done"

Notifications ==
    Cardinality({i \in 1 .. Len(last.out) : last.out[i].ev = "accessibilityChanged"})

\* C1: in every reachable state of the object, m_setupInProgress and
\* m_teardownInProgress are not both true.
C1_AtMostOneInFlight == ~(m_setupInProgress /\ m_teardownInProgress)

\* C2: a setup() or teardown() called while either in-progress flag is set returns
\* false and does nothing: no member changes, nothing is broadcast, no dialog is
\* requested and no daemon call is issued.
C2_RejectedCallNoEffect ==
    RejectedCall =>
        /\ last.ret = "false"
        /\ last.out = <<>>
        /\ last.sent = <<>>
        /\ last.bcast = <<>>
        /\ pre = last.pre

C2_Witness == last.op = "setup" /\ last.pre.td /\ ~last.pre.su /\ last.ret = "false"

\* C3: every accepted setup() or teardown() is answered by exactly one done
\* broadcast: the object never has sent more done broadcasts than it has accepted
\* attempts, and none is missing once it has no call and no passphrase request
\* outstanding.
C3_ExactlyOneDone ==
    /\ owed >= 0
    /\ (calls = EmptyBag /\ ~m_passphraseRequested) => owed = 0

\* C4: when an accepted attempt has ended - a done broadcast was sent, or a
\* dispatch of the attempt failed - both in-progress flags are false.
AttemptEnded ==
    \/ AcceptedCall /\ last.ret = "false"
    \/ /\ last.op \in {"slotDBusReply", "slotDBusError", "passphraseReply"}
       /\ \/ DoneSent("setup") \/ DoneSent("teardown")
          \/ \E i \in 1 .. Len(last.out) : last.out[i].ev = "dispatchFailed"

C4_IdleAfterEnd == AttemptEnded => ~m_setupInProgress /\ ~m_teardownInProgress

\* C5: during the setup of a container that was locked when setup() was accepted,
\* a Mount call is only issued on handling the success reply of an Unlock call:
\* not by setup(), not while the passphrase is awaited, not on any other reply.
C5_NoMountBeforeUnlock ==
    (last.pre.flow.phase \in {"locked", "unlock"} /\ SentCall("Mount")) =>
        (last.op = "slotDBusReply" /\ last.arg.call.method = "Unlock")

\* C6: passphraseReply("") with a passphrase request pending ends the setup with a
\* setup-done broadcast carrying UserCanceled, clears m_setupInProgress and
\* m_passphraseRequested, issues no daemon call and leaves the accessibility alone.
C6_EmptyPassphraseCancels ==
    (last.op = "passphraseReply" /\ last.pre.pr /\ last.arg.passphrase = "") =>
        /\ last.bcast = <<Msg("setup", "Done", "UserCanceled")>>
        /\ ~m_setupInProgress
        /\ ~m_passphraseRequested
        /\ last.sent = <<>>
        /\ ~\E i \in 1 .. Len(last.out) : last.out[i].ev \in {"call", "dispatchFailed"}
        /\ m_isAccessible = last.pre.acc
        /\ Notifications = 0

C6_Witness ==
    /\ last.op = "passphraseReply" /\ last.pre.pr /\ last.pre.su
    /\ last.arg.passphrase = ""

\* C7: locked container, setup(), non-empty passphrase, Unlock succeeds, Mount
\* succeeds: the reply to the Mount sends the one setup-done broadcast, with NoError,
\* the accessibility becomes true and accessibilityChanged(true) was emitted exactly
\* once since setup(); and in that scenario no setup-done with NoError is sent
\* before the reply to a Mount that left the cleartext device mounted.
C7_LockedSetupScenario ==
    /\ (/\ last.op = "slotDBusReply"
        /\ last.pre.flow.phase = "mount" /\ last.pre.flow.clean
        /\ last.arg.call.method = "Mount"
        /\ isAccessible) =>
            /\ last.bcast = <<Msg("setup", "Done", "NoError")>>
            /\ ~m_setupInProgress
            /\ m_isAccessible
            /\ last.pre.flow.notified
                 + Count(last.out, Ev("accessibilityChanged", "true", "udi")) = 1
    /\ (last.op # "StorageAccess" /\ last.pre.flow.phase # "idle" /\ last.pre.flow.clean) =>
            (Has(last.bcast, Msg("setup", "Done", "NoError")) =>
                 /\ last.op = "slotDBusReply" /\ last.arg.call.method = "Mount"
                 /\ mounted)

C7_Witness ==
    /\ last.op = "slotDBusReply"
    /\ last.pre.flow.phase = "mount" /\ last.pre.flow.clean
    /\ last.arg.call.method = "Mount"
    /\ last.bcast = <<Msg("setup", "Done", "NoError")>>
    /\ Has(last.out, Ev("accessibilityChanged", "true", "udi"))

\* C8: a success reply handled during the setup of a container whose cleartext
\* device is not mounted keeps m_setupInProgress and broadcasts nothing; the reply
\* handled when the device is accessible clears the flag, invalidates the cache,
\* broadcasts setup-done and rechecks the accessibility.
C8_DoneOnlyWhenReallyDone ==
    (last.op = "slotDBusReply" /\ last.pre.su /\ isLuksDevice) =>
        IF ~isAccessible
        THEN /\ m_setupInProgress
             /\ last.bcast = <<>>
             /\ ~Has(last.out, Ev("invalidateCache", "-", "-"))
             /\ m_isAccessible = last.pre.acc
             /\ Notifications = 0
        ELSE /\ ~m_setupInProgress
             /\ last.bcast = <<Msg("setup", "Done", "NoError")>>
             /\ Has(last.out, Ev("invalidateCache", "-", "-"))
             /\ m_isAccessible = isAccessible

C8_Witness ==
    /\ last.op = "slotDBusReply" /\ last.pre.su /\ isLuksDevice /\ ~isAccessible
    /\ last.arg.call.method = "Unlock"
    /\ m_setupInProgress

\* C9: checkAccessibility() emits accessibilityChanged(new value) exactly when the
\* fresh isAccessible() differs from the cached value, at most once per call, and
\* leaves the cache equal to isAccessible(), so that a repeated call emits nothing.
C9_NotifyIffFlip ==
    /\ Notifications <= 1
    /\ last.op = "checkAccessibility" =>
          /\ m_isAccessible = isAccessible
          /\ Has(last.out, Ev("accessibilityChanged", B2S(isAccessible), "udi"))
               <=> (last.pre.acc # isAccessible)
          /\ (Notifications = 1) <=> (last.pre.acc # isAccessible)

C9_Witness ==
    /\ last.op = "checkAccessibility"
    /\ last.pre.acc # isAccessible
    /\ last.out = <<Ev("accessibilityChanged", B2S(isAccessible), "udi")>>

\* C10: a passphraseReply() while m_passphraseRequested is false does nothing, and
\* an Unlock call is only issued by a passphraseReply() that found the flag set and
\* cleared it.
C10_UnrequestedReplyIgnored ==
    /\ (last.op = "passphraseReply" /\ ~last.pre.pr) =>
          /\ last.out = <<>> /\ last.sent = <<>> /\ last.bcast = <<>>
          /\ pre = last.pre
    /\ SentCall("Unlock") =>
          /\ last.op = "passphraseReply" /\ last.pre.pr
          /\ ~m_passphraseRequested

C10_Witness ==
    /\ last.op = "passphraseReply" /\ ~last.pre.pr
    /\ flow.phase = "unlock"

\* C11: at most one daemon call with a completion callback is outstanding: none
\* is issued before the reply or error of the previous one has been handled.
C11_OneCallOutstanding == BagCardinality(calls) <= 1

\* C12: when the error of a call issued by an in-progress setup (Mount, Unlock)
\* resp. teardown (Unmount, Lock) is handled, the flag of that action is cleared,
\* the one broadcast sent is the done of that action with the mapped error, the
\* cached accessibility is fresh and no call of any kind is issued.
ActionOf(method) == IF method \in {"Mount", "Unlock"} THEN "setup" ELSE "teardown"

C12_ErrorEndsAction ==
    last.op = "slotDBusError" =>
        LET a == ActionOf(last.arg.call.method)
        IN  (IF a = "setup" THEN last.pre.su ELSE last.pre.td) =>
                /\ ~(IF a = "setup" THEN m_setupInProgress ELSE m_teardownInProgress)
                /\ last.bcast = <<Msg(a, "Done", errorToSolidError(last.arg.name))>>
                /\ last.sent = <<>>
                /\ ~\E i \in 1 .. Len(last.out) : last.out[i].ev \in {"call", "dispatchFailed"}
                /\ m_isAccessible = isAccessible

\* C13: an accepted setup() of a locked container whose passphrase dialog request
\* cannot be delivered returns false with m_passphraseRequested false, issues no
\* Unlock or Mount call and sends no setup-done broadcast: the only broadcast is
\* the setup-requested one.
PromptUnreachable == AcceptedCall /\ last.op = "setup" /\ last.arg.locked /\ ~last.arg.uiOk

C13_PromptFailureIsDispatchFailure ==
    PromptUnreachable =>
        /\ last.ret = "false"
        /\ ~m_passphraseRequested
        /\ last.sent = <<>>
        /\ ~\E i \in 1 .. Len(last.out) : last.out[i].ev \in {"call", "dispatchFailed"}
        /\ last.bcast = <<Msg("setup", "Requested", "NoError")>>

C13_Witness == PromptUnreachable /\ Has(last.out, Ev("showPassphraseDialog", "udi", "m_lastReturnObject"))

\* C14: when a success reply completes a teardown (teardown-done with NoError is
\* broadcast) and the parent drive is removable with media present and the device
\* is not an optical disc, an Eject call on the drive precedes the broadcast.
TeardownCompletes ==
    last.op = "slotDBusReply" /\ Has(last.bcast, Msg("teardown", "Done", "NoError"))

Before(e1, e2) ==
    \E i, j \in 1 .. Len(last.out) : i < j /\ last.out[i] = e1 /\ last.out[j] = e2

Ejects == Has(last.out, Ev("call", "Eject", "drive"))

PowersOff == Has(last.out, Ev("call", "PowerOff", "drive"))

C14_EjectBeforeTeardownDone ==
    (/\ TeardownCompletes
     /\ last.arg.drv.MediaRemovable /\ last.arg.drv.MediaAvailable
     /\ ~last.arg.drv.isOpticalDisc) =>
        Before(Ev("call", "Eject", "drive"),
               Ev("broadcastActionDone", "teardown", "NoError"))

C14_Witness ==
    /\ TeardownCompletes
    /\ last.arg.call.method = "Unmount"
    /\ last.arg.drv.MediaRemovable /\ last.arg.drv.MediaAvailable
    /\ ~last.arg.drv.isOpticalDisc
    /\ Ejects

\* C15 as stated: when a teardown completes and the parent drive is non-removable
\* or the device is an optical disc, neither Eject nor PowerOff is issued.
C15_NeitherIfNonRemovableOrOptical ==
    (TeardownCompletes /\ (~last.arg.drv.MediaRemovable \/ last.arg.drv.isOpticalDisc)) =>
        (~Ejects /\ ~PowersOff)

\* C15 amended: when a teardown completes and the device is an optical disc, or
\* the parent drive is non-removable and cannot power off, neither Eject nor
\* PowerOff is issued.
C15_NeitherIfOpticalOrInert ==
    (/\ TeardownCompletes
     /\ \/ last.arg.drv.isOpticalDisc
        \/ ~last.arg.drv.MediaRemovable /\ ~last.arg.drv.CanPowerOff) =>
        (~Ejects /\ ~PowersOff)

C15_Witness ==
    /\ TeardownCompletes
    /\ last.arg.drv.isOpticalDisc
    /\ last.arg.drv.MediaRemovable /\ last.arg.drv.MediaAvailable
    /\ last.arg.drv.CanPowerOff
    /\ ~Ejects /\ ~PowersOff

\* C16: in the step that completes a teardown PowerOff is issued exactly when the
\* eject condition (removable, media present, not optical) fails and the drive can
\* power off and the device is not optical; Eject and PowerOff are issued by no
\* other step, and never both.
C16_PowerOffExactlyWhen ==
    /\ TeardownCompletes =>
          (PowersOff <=>
              /\ ~(/\ last.arg.drv.MediaRemovable /\ last.arg.drv.MediaAvailable
                   /\ ~last.arg.drv.isOpticalDisc)
              /\ last.arg.drv.CanPowerOff
              /\ ~last.arg.drv.isOpticalDisc)
    /\ (Ejects \/ PowersOff) => TeardownCompletes
    /\ ~(Ejects /\ PowersOff)
    /\ Count(last.out, Ev("call", "PowerOff", "drive")) <= 1

C16_Witness ==
    /\ TeardownCompletes
    /\ last.arg.drv.MediaRemovable /\ ~last.arg.drv.MediaAvailable
    /\ PowersOff

\* the success reply of the Unmount of a teardown is handled while the container
\* is unlocked
UnmountedContainer ==
    /\ last.op = "slotDBusReply" /\ last.arg.call.method = "Unmount"
    /\ ~last.pre.su /\ last.pre.td
    /\ isLuksDevice /\ clearTextPath # ""

LockDispatch ==
    \/ last.out = <<Ev("call", "Lock", "self")>> /\ last.sent = <<Call("Lock", "self")>>
    \/ last.out = <<Ev("dispatchFailed", "Lock", "self")>> /\ last.sent = <<>>

C18_ParentLocked ==
    (/\ last.op = "slotDBusReply" /\ last.arg.call.method = "Unmount"
     /\ ~last.pre.su /\ last.pre.td
     /\ kind = "cleartext") =>
        \/ Has(last.out, Ev("call", "Lock", "parent"))
        \/ Has(last.out, Ev("dispatchFailed", "Lock", "parent"))

\* C19: the step that issues Eject or PowerOff finishes the teardown itself,
\* whatever becomes of that call: it registers no completion callback for it, and
\* then clears m_teardownInProgress, invalidates the cache and broadcasts
\* teardown-done with NoError; no answer to an Eject or PowerOff is ever awaited.
C19_EjectBestEffort ==
    /\ (Ejects \/ PowersOff) =>
          /\ last.sent = <<>>
          /\ ~m_teardownInProgress
          /\ \E e \in {Ev("call", "Eject", "drive"), Ev("call", "PowerOff", "drive")} :
                 /\ Before(e, Ev("invalidateCache", "-", "-"))
                 /\ Before(e, Ev("broadcastActionDone", "teardown", "NoError"))
          /\ last.bcast = <<Msg("teardown", "Done", "NoError")>>
    /\ \A c \in BagToSet(calls) : c.method \notin {"Eject", "PowerOff"}

C19_Witness ==
    /\ last.op = "slotDBusReply" /\ last.pre.td
    /\ PowersOff
    /\ last.bcast = <<Msg("teardown", "Done", "NoError")>>


\* the value the remembered query returns when the thread repeats it now
Repeated ==
    LET d == localData[watch.th]
    IN  CASE watch.op = "deviceList" -> deviceList(d).ret
          [] watch.op = "mountPoints" -> mountPoints(d, watch.device).ret
          [] watch.op = "options" -> options(d, watch.device).ret
          [] watch.op = "fstype" -> fstype(d, watch.device).ret
          [] watch.op = "currentMountPoints" -> currentMountPoints(d, watch.device).ret

\* C20: without a flushFstabCache() or flushMtabCache() in between, a mount-table
\* query (deviceList, mountPoints, options, fstype, currentMountPoints) that a
\* thread repeats for the same device returns what it returned before, whatever
\* other queries were made and however the files changed in between.
C20_RepeatedQuerySameResult == watch.on => Repeated = watch.result


\* the table file has an entry for the device that the parse retains
Listed(file, device) ==
    \E i \in 1 .. Len(file.entries) :
        LET fe == file.entries[i]
        IN  /\ \/ _k_isFstabNetworkFileSystem(fe.mnt_type, fe.mnt_fsname)
               \/ _k_isFstabSupportedLocalFileSystem(fe.mnt_type)
            /\ _k_deviceNameForMountpoint(fe.mnt_fsname, fe.mnt_type, fe.mnt_dir) = device

\* both caches of the thread are invalidated and both files can be read: the
\* next query parses again
Invalidated(th) ==
    /\ ~localData[th].m_fstabCacheValid
    /\ ~localData[th].m_mtabCacheValid
    /\ fstabFile.readable
    /\ mtabFile.readable

\* C21: after the invalidation the next query parses the table again in full and
\* keeps nothing of the state before: a device that has no retained entry in the
\* tables any more yields no mount point, no option and no filesystem type.
C21_RemovedDeviceYieldsNothing ==
    \A th \in Threads, device \in Devices :
        (Invalidated(th) /\ ~Listed(fstabFile, device) /\ ~Listed(mtabFile, device))
            => /\ mountPoints(localData[th], device).ret = <<>>
               /\ currentMountPoints(localData[th], device).ret = <<>>
               /\ options(localData[th], device).ret = <<>>
               /\ fstype(localData[th], device).ret = <<>>


\* the step flushes the mtab cache of the thread, or parses the mtab again
MtabFlushed(th) == localData[th].m_mtabCacheValid /\ ~localData'[th].m_mtabCacheValid

MtabReparsed(th) == ~localData[th].m_mtabCacheValid /\ localData'[th].m_mtabCacheValid

\* the step flushes the fstab cache of the thread, or parses the fstab again
FstabFlushed(th) == localData[th].m_fstabCacheValid /\ ~localData'[th].m_fstabCacheValid

FstabReparsed(th) == ~localData[th].m_fstabCacheValid /\ localData'[th].m_fstabCacheValid

\* what the mtab side of a step leaves alone: the validity flag of the fstab
\* cache and the answers of the queries served from the fstab
FstabSideKept(th) ==
    /\ localData'[th].m_fstabCacheValid = localData[th].m_fstabCacheValid
    /\ \A device \in Devices :
           /\ options(localData'[th], device).ret = options(localData[th], device).ret
           /\ fstype(localData'[th], device).ret = fstype(localData[th], device).ret

\* what the fstab side of a step leaves alone: the validity flag of the mtab
\* cache and the answer of currentMountPoints
MtabSideKept(th) ==
    /\ localData'[th].m_mtabCacheValid = localData[th].m_mtabCacheValid
    /\ \A device \in Devices :
           currentMountPoints(localData'[th], device).ret
               = currentMountPoints(localData[th], device).ret

\* C22: the two caches are independent.  A flushMtabCache() and the parse of the
\* mtab that follows it change neither the validity flag of a valid fstab cache
\* nor what options(device) and fstype(device) return, and a flushFstabCache()
\* and the parse of the fstab that follows change neither the validity flag of a
\* valid mtab cache nor what currentMountPoints(device) returns.
C22_CachesIndependent ==
    [][\A th \in Threads :
          /\ ((MtabFlushed(th) \/ MtabReparsed(th)) /\ localData[th].m_fstabCacheValid)
                 => FstabSideKept(th)
          /\ ((FstabFlushed(th) \/ FstabReparsed(th)) /\ localData[th].m_mtabCacheValid)
                 => MtabSideKept(th)]_fvars


\* the retention rule: a network filesystem entry (one of the four types, or a
\* source that starts with "//") or a type of the allow-list
NetworkEntry(fe) ==
    \/ fe.mnt_type \in {<<"nfs">>, <<"nfs4">>, <<"smbfs">>, <<"cifs">>}
    \/ startsWith(fe.mnt_fsname, <<"//">>)

AllowListed(fe) ==
    fe.mnt_type \in {<<"fuse.", "encfs">>, <<"fuse.", "cryfs">>, <<"overlay">>}

\* the devices of the entries of the file that the rule retains
RetainedDevices(file) ==
    {_k_deviceNameForMountpoint(file.entries[i].mnt_fsname, file.entries[i].mnt_type,
                                file.entries[i].mnt_dir) :
        i \in {k \in 1 .. Len(file.entries) :
                   NetworkEntry(file.entries[k]) \/ AllowListed(file.entries[k])}}

\* C23: a parse of the static mount configuration or of the live mount table
\* retains an entry if and only if it is a network filesystem entry (type nfs,
\* nfs4, smbfs or cifs, or a source starting with "//") or its type is in the
\* allow-list; the same rule holds for both tables.
C23_SameRetentionRule ==
    [][\A th \in Threads :
          /\ FstabReparsed(th)
                 => keys(localData'[th].m_fstabCache) = RetainedDevices(fstabFile)
          /\ MtabReparsed(th)
                 => keys(localData'[th].m_mtabCache) = RetainedDevices(mtabFile)]_fvars


\* what thread th observes: its validity flags and the answers of its queries
Observed(d) ==
    [fstabValid |-> d.m_fstabCacheValid,
     mtabValid |-> d.m_mtabCacheValid,
     deviceList |-> deviceList(d).ret,
     mountPoints |-> [device \in Devices |-> mountPoints(d, device).ret],
     options |-> [device \in Devices |-> options(d, device).ret],
     fstype |-> [device \in Devices |-> fstype(d, device).ret],
     currentMountPoints |-> [device \in Devices |-> currentMountPoints(d, device).ret]]

\* C24: each thread owns its FstabHandling.  A step in which the caches of one
\* thread are populated or flushed changes neither the validity flags nor the
\* answer of any query of the other thread, in every interleaving: the other
\* thread's FstabHandling and the files are as before, or else what it observes
\* is.
C24_ThreadsIsolated ==
    [][\A a \in Threads, b \in Threads :
          (a # b /\ localData'[a] # localData[a])
              => \/ /\ localData'[b] = localData[b]
                    /\ fstabFile' = fstabFile
                    /\ mtabFile' = mtabFile
                 \/ Observed(localData'[b]) = Observed(localData[b])]_fvars

\* both threads have parsed the live mount table, at different times: one holds
\* entries, the other holds none
C24_Witness ==
    /\ localData["main"].m_mtabCacheValid
    /\ localData["main"].m_mtabCache # <<>>
    /\ localData["worker"].m_mtabCacheValid
    /\ localData["worker"].m_mtabCache = <<>>
    /\ ~localData["worker"].m_fstabCacheValid


\* C25: every requestPassphrase() call uses a fresh return object path: the path
\* generated differs from every path generated earlier in the process, by any
\* StorageAccess object and by any concurrent caller.
C25_FreshReturnObjectPath ==
    /\ \A i \in 1 .. Len(generated), j \in 1 .. Len(generated) :
           i # j => generated[i] # generated[j]
    /\ \A c \in Calling : ~Has(generated, caller[c].path)
    /\ \A c \in Calling, x \in Calling : c # x => caller[c].path # caller[x].path

\* two threads are in requestPassphrase() at once, on different objects, after
\* a path was generated before
C25_Witness ==
    /\ caller["gui"].pc = "generated"
    /\ caller["job"].pc = "generated"
    /\ caller["gui"].object # caller["job"].object
    /\ Len(generated) >= 1


\* the Unmount requests of the step, dispatched or not, by their target
UnmountTargets ==
    [i \in 1 .. Len(SelectSeq(last.out, LAMBDA e : e.x = "Unmount")) |->
        SelectSeq(last.out, LAMBDA e : e.x = "Unmount")[i].y]

\* C26: an accepted teardown() issues its Unmount request against the cleartext
\* device when the device is an encrypted container whose cleartext device can
\* be resolved, and against the device itself in every other case.
C26_UnmountTarget ==
    (AcceptedCall /\ last.op = "teardown")
        => UnmountTargets = IF kind = "luks" /\ unlocked THEN <<"ct">> ELSE <<"self">>

\* teardown() of an unlocked container has sent Unmount to the cleartext device
C26_Witness ==
    /\ AcceptedCall /\ last.op = "teardown"
    /\ kind = "luks" /\ unlocked
    /\ last.sent = <<Call("Unmount", "ct")>>


\* C27: isAccessible() is the mounted state of the device itself for a device
\* that is no encrypted container; for an encrypted container it is the mounted
\* state of its cleartext device, and false whenever no cleartext device can be
\* resolved (the container is locked).
C27_AccessibleIsMounted ==
    /\ kind # "luks" => (isAccessible <=> mounted)
    /\ (kind = "luks" /\ unlocked) => (isAccessible <=> mounted)
    /\ (kind = "luks" /\ ~unlocked) => ~isAccessible

\* the container was unlocked and its cleartext device is not mounted, and the
\* object has just evaluated isAccessible() in a completion callback
C27_Witness ==
    /\ kind = "luks" /\ unlocked /\ ~mounted
    /\ last.op = "slotDBusReply"
    /\ ~isAccessible /\ ~m_isAccessible


\* the step broadcast a "done"
AnyDoneSent == \E i \in 1 .. Len(last.bcast) : last.bcast[i].type = "Done"

\* C28: in an accepted setup() (resp. teardown()) the in-progress flag is set and
\* the "requested" broadcast is sent before any passphrase request or daemon
\* call of the attempt is issued, and the "requested" broadcast of an attempt
\* precedes its "done" broadcast: the accepting call broadcasts no "done", and
\* the "done" broadcasts never outnumber the accepted attempts.
C28_RequestedFirst ==
    /\ AcceptedCall =>
           /\ last.out # <<>>
           /\ last.out[1] = Ev("broadcastActionRequested", last.op, "-")
           /\ last.bcast = <<Msg(last.op, "Requested", "NoError")>>
           /\ last.op = "setup" => m_setupInProgress
           /\ last.op = "teardown" => m_teardownInProgress
    /\ AnyDoneSent => ~AcceptedCall
    /\ owed >= 0

\* an accepted teardown(): the broadcast, then the Unmount request
C28_Witness ==
    /\ AcceptedCall /\ last.op = "teardown"
    /\ Len(last.out) = 2
    /\ last.out[1].ev = "broadcastActionRequested"
    /\ last.out[2] = Ev("call", "Unmount", "self")


\* C29: while the other process performs an action on the device, that is from
\* the reception of its "requested" broadcast to the reception of the matching
\* "done" broadcast, setup() and teardown() of the object are rejected (they
\* return false and issue nothing); once the "done" broadcast is received and no
\* attempt of the object itself is open, the object accepts them again.
C29_RejectsWhilePeerActs ==
    /\ (last.op \in Actions /\ peerAction # "idle")
           => (last.ret = "false" /\ last.out = <<>>)
    /\ (last.op \in {"slotSetupDone", "slotTeardownDone"} /\ owed = 0)
           => (~m_setupInProgress /\ ~m_teardownInProgress)


\* the signal of the client that belongs to a device action
SignalOf(action) ==
    CASE action = "add" -> "deviceAdded"
      [] action = "remove" -> "deviceRemoved"
      [] action = "change" -> "deviceChanged"
      [] action = "online" -> "deviceOnlined"
      [] action = "offline" -> "deviceOfflined"
      [] action = "bind" -> "deviceBound"
      [] action = "unbind" -> "deviceUnbound"

\* the signals the last run of the handler emitted
Emitted == SelectSeq(uq.out, LAMBDA e : e.ev = "emit")

\* C30: a device event received from the udev monitor results in exactly one
\* emitted signal, the one of its action (add, remove, change, online, offline,
\* bind, unbind); a readiness notification for which no device is received, or
\* a device with any other action, emits no signal; and the socket notifier is
\* enabled again after every run of the handler.
C30_OneSignalPerEvent ==
    uq.op = "_uq_monitorReadyRead" =>
        /\ monitorNotifier
        /\ IF uq.dev # NoUdevDevice
              /\ uq.dev.action \in {"add", "remove", "change", "online", "offline",
                                    "bind", "unbind"}
           THEN Emitted = <<Ev("emit", SignalOf(uq.dev.action), uq.dev.name)>>
           ELSE Emitted = <<>>

\* the handler received a bind event while another event was waiting
C30_Witness ==
    /\ uq.op = "_uq_monitorReadyRead"
    /\ uq.dev.action = "bind"
    /\ Emitted # <<>>
    /\ monitor # <<>>


\* the step did something with the given name: a call, a broadcast, a signal
Did(x) == \E i \in 1 .. Len(last.out) : last.out[i].x = x

\* C31: a success reply is handled as the completion of the call that was
\* issued.  The reply to a Mount or Unlock call of a setup is never handled by
\* the teardown branch (no Lock, Eject, PowerOff and no teardown-done broadcast),
\* and the reply to an Unmount or Lock call is never handled as the completion of
\* a setup (no Mount and no setup-done broadcast), whatever requested and done
\* broadcasts were received in between.
C31_ReplyMatchesCall ==
    last.op = "slotDBusReply" =>
        /\ last.arg.call.method \in {"Mount", "Unlock"}
               => /\ ~Did("Lock") /\ ~Did("Eject") /\ ~Did("PowerOff")
                  /\ ~DoneSent("teardown")
        /\ last.arg.call.method \in {"Unmount", "Lock"}
               => /\ ~Did("Mount")
                  /\ ~DoneSent("setup")


\* C32: Lock, Eject and PowerOff are issued only on handling the success reply
\* to the Unmount call of the teardown, or to the Lock call that such a reply
\* had issued; when the Unmount fails, none of them is issued and an unlocked
\* container stays unlocked.
IssuedOnUnmountReply ==
    /\ (Did("Lock") \/ Did("Eject") \/ Did("PowerOff"))
           => (last.op = "slotDBusReply" /\ last.arg.call.method \in {"Unmount", "Lock"})
    /\ (last.op = "slotDBusError" /\ last.arg.call.method = "Unmount")
           => ~Did("Lock") /\ ~Did("Eject") /\ ~Did("PowerOff")

C32_LockOnlyAfterUnmount ==
    [][/\ IssuedOnUnmountReply'
       /\ (last'.op = "slotDBusError" /\ last'.arg.call.method = "Unmount")
              => unlocked' = unlocked]_vars



\* C33: one setup attempt issues at most one Unlock and at most one Mount.  No
\* step issues two of them, no Unlock is issued once the attempt has issued its
\* Unlock, and handling the success reply to a Mount call never issues Mount
\* again.
C33_OneUnlockOneMount ==
    /\ Count(last.sent, Call("Unlock", "self")) <= 1
    /\ Cardinality({i \in 1 .. Len(last.sent) : last.sent[i].method = "Mount"}) <= 1
    /\ SentCall("Unlock") => last.pre.flow.phase \notin {"unlock", "mount", "broken"}
    /\ (last.op = "slotDBusReply" /\ last.arg.call.method = "Mount")
           => ~SentCall("Mount")


\* C34: one teardown attempt issues at most one Unmount and at most one Lock,
\* and ends.  Unmount is only issued by an accepted teardown(), no step issues
\* two Unmount or two Lock calls, and handling the success reply to a Lock call
\* never issues Lock again: in the teardown branch it ends the teardown with
\* the done broadcast.
C34_OneUnmountOneLock ==
    /\ Cardinality({i \in 1 .. Len(last.sent) : last.sent[i].method = "Unmount"}) <= 1
    /\ Cardinality({i \in 1 .. Len(last.sent) : last.sent[i].method = "Lock"}) <= 1
    /\ SentCall("Unmount") => (AcceptedCall /\ last.op = "teardown")
    /\ (last.op = "slotDBusReply" /\ last.arg.call.method = "Lock")
           => /\ ~SentCall("Lock")
              /\ (last.pre.td /\ ~last.pre.su) => DoneSent("teardown")


\* the return objects the step registered on the session bus, less those it
\* unregistered
Registered ==
    Count(last.out, Ev("registerObject", "m_lastReturnObject", "-"))
        - Count(last.out, Ev("unregisterObject", "m_lastReturnObject", "-"))

Flag(b) == IF b THEN 1 ELSE 0

\* C35: a passphrase return object is registered exactly while
\* m_passphraseRequested is true.  Every step changes the number of registered
\* return objects as it changes the flag: it registers one exactly when it sets
\* the flag, unregisters one exactly when it clears the flag, and otherwise
\* leaves the registration alone, so that never more than one is registered and
\* none stays registered after the request was answered or its dispatch failed.
C35_RegisteredWhileRequested ==
    Registered = Flag(m_passphraseRequested) - Flag(last.pre.pr)


\* a done broadcast was handled by the step, and the signal it emits for it
DoneHandled == last.op \in {"slotSetupDone", "slotTeardownDone"}

DoneSignal ==
    Ev("emit", IF last.op = "slotSetupDone" THEN "setupDone" ELSE "teardownDone",
       last.arg.error)

\* C36: when a setup or teardown has finished and the device has not changed
\* since, the cached m_isAccessible equals isAccessible(): after the step that
\* handled a done broadcast, and after the reply or error step that sent one.
\* The step that handles the done broadcast emits the setupDone/teardownDone
\* signal last, and when it found the accessibility changed,
\* accessibilityChanged is emitted before that signal.
C36_CacheFreshAfterDone ==
    /\ (last.op \in {"slotDBusReply", "slotDBusError"} /\ AnyDoneSent)
           => m_isAccessible = isAccessible
    /\ DoneHandled =>
           /\ m_isAccessible = isAccessible
           /\ last.out # <<>>
           /\ last.out[Len(last.out)] = DoneSignal
           /\ Count(last.out, DoneSignal) = 1
           /\ (last.pre.acc # m_isAccessible)
                  => Before(Ev("accessibilityChanged", B2S(m_isAccessible), "udi"),
                            DoneSignal)

\* a done broadcast of a setup was handled that found the volume mounted
C36_Witness ==
    /\ last.op = "slotSetupDone"
    /\ ~last.pre.acc
    /\ m_isAccessible
    /\ Before(Ev("accessibilityChanged", "true", "udi"), DoneSignal)


\* the thread of the remembered query has made, since its last flush, a query
\* that is served from the fstab (resp. the mtab), and that cache is not valid
FstabFailed(th) ==
    /\ watch.on
    /\ watch.th = th
    /\ watch.op \in {"deviceList", "mountPoints", "options", "fstype"}
    /\ ~localData[th].m_fstabCacheValid

MtabFailed(th) ==
    /\ watch.on
    /\ watch.th = th
    /\ watch.op \in {"deviceList", "mountPoints", "currentMountPoints"}
    /\ ~localData[th].m_mtabCacheValid

\* the caches a complete parse of the file gives
FstabParsed(f) == readFstab(FstabHandling, f.entries)

MtabParsed(f) == readMtab(FstabHandling, f.entries)

\* C37: a query that finds the cache invalid and cannot open the static mount
\* configuration (resp. the live mount table) leaves that cache invalid and
\* without a mount-point entry, the query returned no mount point of it, and
\* the next query tries the parse again, succeeding once the file can be
\* opened; and a cache is only valid after a parse that ran to the end, holding
\* what a complete parse of a readable file gives.
C37_UnreadableStaysInvalid ==
    \A th \in Threads :
        LET d == localData[th]
        IN  /\ FstabFailed(th) =>
                   /\ d.m_fstabCache = <<>>
                   /\ d.m_fstabOptionsCache = <<>>
                   /\ watch.op = "options" => watch.result = <<>>
                   /\ (watch.op = "mountPoints" /\ MtabFailed(th)) => watch.result = <<>>
                   /\ \A f \in Files :
                          _k_updateFstabMountPointsCache(d, f).m_fstabCacheValid = f.readable
            /\ MtabFailed(th) =>
                   /\ d.m_mtabCache = <<>>
                   /\ watch.op = "currentMountPoints" => watch.result = <<>>
                   /\ \A f \in Files :
                          _k_updateMtabMountPointsCache(d, f).m_mtabCacheValid = f.readable
            /\ d.m_fstabCacheValid =>
                   \E f \in Files :
                       /\ f.readable
                       /\ d.m_fstabCache = FstabParsed(f).m_fstabCache
                       /\ d.m_fstabOptionsCache = FstabParsed(f).m_fstabOptionsCache
            /\ d.m_mtabCacheValid =>
                   \E f \in Files :
                       /\ f.readable
                       /\ d.m_mtabCache = MtabParsed(f).m_mtabCache

\* a thread that has parsed a table before asked for the current mount points
\* when the live mount table could not be opened
C37_Witness ==
    /\ watch.on
    /\ watch.op = "currentMountPoints"
    /\ watch.result = <<>>
    /\ ~mtabFile.readable
    /\ ~localData[watch.th].m_mtabCacheValid
    /\ localData[watch.th].m_mtabCache = <<>>
    /\ DOMAIN localData[watch.th].m_fstabFstypeCache # {}

=============================================================================
